---- MODULE Spec2Model ----
(***************************************************************************)
(* The Generate component (src/components/Generate.jsx): the chat          *)
(* submission handler, its response history and the carousel navigation.  *)
(*                                                                         *)
(* JavaScript strings are sequences of one-character strings, so that      *)
(* trim(), template literals and concatenation are computed.  JavaScript   *)
(* values that come out of a JSON body are tagged records:                 *)
(*   [t |-> "undefined"], [t |-> "null"], [t |-> "string", s |-> chars],   *)
(*   [t |-> "object", f |-> record of values], [t |-> "array", a |-> seq]. *)
(* Numbers of the parameter set are in hundredths (0.7 is 70).             *)
(* The id and timestamp fields of a record (Date.now(), toLocaleString())  *)
(* are read by no handler and are not part of the modelled record.         *)
(*                                                                         *)
(* The Logout page and the ClaudeGeneration transcript viewer               *)
(* (src/unnamed/part_001) are modelled next to it, each with its own       *)
(* variables and its own specification.                                    *)
(***************************************************************************)
EXTENDS Integers, Sequences, FiniteSets, TLC

VARIABLES
    message,                \* useState('')            line 8
    responses,              \* useState([])            line 9
    currentResponseIndex,   \* useState(0)             line 10
    isLoading,              \* useState(false)         line 11
    parameters,             \* useState({...})         line 13
    inflight,               \* suspended handleSubmit invocations (closures awaiting a promise)
    fetchCount,             \* number of fetch(/chat/completions) calls issued so far (line 74)
    served,                 \* history: request ordinal of each record of responses, same order
    apiStatus,              \* useState('checking')    line 12
    probe,                  \* position of the checkHealth invocation started on mount
    resetCount,             \* number of loadDefaults invocations started so far
    defaultsFetching,       \* loadDefaults invocations awaiting fetch (line 48)
    defaultsParsing,        \* loadDefaults invocations awaiting response.json() (line 49)
    lastAlert,              \* text of the latest alert(...) shown, Undefined before the first
    response,               \* ClaudeGeneration: useState(null)        part_001 line 63
    loading,                \* ClaudeGeneration: useState(false)       part_001 line 64
    error,                  \* ClaudeGeneration: useState(null)        part_001 line 65
    fileType,               \* ClaudeGeneration: useState(null)        part_001 line 66
    uploads,                \* suspended handleFileUpload invocations awaiting file.text()
    uploadCount,            \* number of handleFileUpload invocations that got a file
    isAuthenticated,        \* Logout: useSession().isAuthenticated    part_001 line 9
    isSessionLoading,       \* Logout: useSession().isSessionLoading   part_001 line 9
    user,                   \* Logout: useUser().user                  part_001 line 10
    isUserLoading,          \* Logout: useUser().isUserLoading         part_001 line 10
    mounted,                \* the Logout page has rendered and run its first effect
    hookChanges,            \* number of changes of the session and user hooks so far
    logoutCalls,            \* number of sdk.logout() calls so far
    loggingOut,             \* handleLogout invocations awaiting sdk.logout()
    lastLogout,             \* how the latest settled sdk.logout() ended
    route                   \* path the router of the Logout page was last sent to

probeVars == <<apiStatus, probe>>

resetVars == <<resetCount, defaultsFetching, defaultsParsing, lastAlert>>

viewerVars == <<response, loading, error, fileType, uploads, uploadCount>>

logoutVars == <<isAuthenticated, isSessionLoading, user, isUserLoading, mounted,
                hookChanges, logoutCalls, loggingOut, lastLogout, route>>

\* The state of the other pages, which no handler of Generate touches.
pageVars == <<viewerVars, logoutVars>>

\* The state of Generate, which no handler of the other pages touches.
generateVars == <<message, responses, currentResponseIndex, isLoading, parameters,
                  inflight, fetchCount, served, probeVars, resetVars>>

vars == <<generateVars, pageVars>>

\* ---------------------------------------------------------------- bounds

\* Cap on the number of completion requests issued in one behaviour.
MaxSubmits == 2

\* ---------------------------------------------------------------- strings

ErrorPrefix == <<"E", "r", "r", "o", "r", ":", " ">>
UnknownError == <<"U", "n", "k", "n", "o", "w", "n", " ", "e", "r", "r", "o", "r">>
NetworkErrorPrefix == <<"N", "e", "t", "w", "o", "r", "k", " ", "e", "r", "r", "o", "r", ":", " ">>
NoResponseContent == <<"N", "o", " ", "r", "e", "s", "p", "o", "n", "s", "e", " ", "c", "o", "n", "t", "e", "n", "t">>

\* Failure messages of the platform (error.message of the rejected promise).
FailedToFetch == <<"F", "a", "i", "l", "e", "d", " ", "t", "o", " ", "f", "e", "t", "c", "h">>
UnexpectedEndOfJSON == <<"U", "n", "e", "x", "p", "e", "c", "t", "e", "d", " ", "e", "n", "d", " ", "o", "f", " ", "J", "S", "O", "N", " ", "i", "n", "p", "u", "t">>
CannotReadNull == <<"C", "a", "n", "n", "o", "t", " ", "r", "e", "a", "d", " ", "p", "r", "o", "p", "e", "r", "t", "i", "e", "s", " ", "o", "f", " ", "n", "u", "l", "l">>

\* Payload strings of the completion service used as inputs.
ModelNotLoaded == <<"m", "o", "d", "e", "l", " ", "n", "o", "t", " ", "l", "o", "a", "d", "e", "d">>
TryThisRepo == <<"T", "r", "y", " ", "t", "h", "i", "s", " ", "r", "e", "p", "o">>

Whitespace == {" ", "\t", "\n"}

\* ---------------------------------------------------------------- JavaScript values

Undefined == [t |-> "undefined"]
Null == [t |-> "null"]
Str(s) == [t |-> "string", s |-> s]
Obj(f) == [t |-> "object", f |-> f]
Arr(a) == [t |-> "array", a |-> a]

Nullish(v) == v.t \in {"undefined", "null"}

\* ToBoolean: undefined, null and the empty string are falsy.
truthy(v) ==
    CASE v.t = "undefined" -> FALSE
      [] v.t = "null" -> FALSE
      [] v.t = "string" -> v.s # <<>>
      [] OTHER -> TRUE

\* v.k on a value that is not null or undefined.
Prop(v, k) ==
    IF v.t = "object" /\ k \in DOMAIN v.f THEN v.f[k] ELSE Undefined

\* v?.k
OptProp(v, k) == IF Nullish(v) THEN Undefined ELSE Prop(v, k)

\* v?.[i], i counted from 0
OptIndex(v, i) ==
    IF Nullish(v) THEN Undefined
    ELSE IF v.t = "array" /\ i < Len(v.a) THEN v.a[i + 1] ELSE Undefined

\* a || b
Or(a, b) == IF truthy(a) THEN a ELSE b

\* `${v}`
TemplateStr(v) ==
    CASE v.t = "string" -> v.s
      [] v.t = "undefined" -> <<"u", "n", "d", "e", "f", "i", "n", "e", "d">>
      [] v.t = "null" -> <<"n", "u", "l", "l">>
      [] v.t = "array" -> <<>>
      [] OTHER -> <<"[", "o", "b", "j", "e", "c", "t", " ", "O", "b", "j", "e", "c", "t", "]">>

RECURSIVE trimStart(_)
trimStart(s) ==
    IF s # <<>> /\ Head(s) \in Whitespace THEN trimStart(Tail(s)) ELSE s

RECURSIVE trimEnd(_)
trimEnd(s) ==
    IF s # <<>> /\ s[Len(s)] \in Whitespace THEN trimEnd(SubSeq(s, 1, Len(s) - 1)) ELSE s

\* A bug that compares the raw text instead of the trimmed one.
trimNothing(s) == s

\* String.prototype.trim
trim(s) == trimEnd(trimStart(s))

\* ---------------------------------------------------------------- numbers

\* Numbers are in hundredths; their decimal text is what an input element holds.
Digit(d) == <<"0", "1", "2", "3", "4", "5", "6", "7", "8", "9">>[d + 1]

IsDigit(c) == c \in {"0", "1", "2", "3", "4", "5", "6", "7", "8", "9"}

DigitValue(c) == CHOOSE d \in 0 .. 9 : Digit(d) = c

RECURSIVE digitsOf(_)
digitsOf(k) ==
    IF k < 10 THEN <<Digit(k)>> ELSE digitsOf(k \div 10) \o <<Digit(k % 10)>>

\* Number::toString of n hundredths: "0.7" for 70, "2" for 200, "-0.25" for -25
numberToString(n) ==
    LET a == IF n < 0 THEN 0 - n ELSE n
        f == a % 100
    IN  (IF n < 0 THEN <<"-">> ELSE <<>>)
        \o digitsOf(a \div 100)
        \o (IF f = 0 THEN <<>>
            ELSE <<".", Digit(f \div 10)>>
                 \o (IF f % 10 = 0 THEN <<>> ELSE <<Digit(f % 10)>>))

RECURSIVE leadingDigits(_)
leadingDigits(s) ==
    IF s # <<>> /\ IsDigit(Head(s)) THEN <<Head(s)>> \o leadingDigits(Tail(s)) ELSE <<>>

RECURSIVE digitsValue(_, _)
digitsValue(ds, acc) ==
    IF ds = <<>> THEN acc ELSE digitsValue(Tail(ds), 10 * acc + DigitValue(Head(ds)))

\* parseFloat of a decimal text, in hundredths (further digits are below the
\* resolution of the model).  The value of a range input is always the text of
\* a number, so the NaN result is not reached.
parseFloat(s) ==
    LET t == trimStart(s)
        neg == t # <<>> /\ Head(t) = "-"
        u == IF t # <<>> /\ Head(t) \in {"-", "+"} THEN Tail(t) ELSE t
        ip == leadingDigits(u)
        r == SubSeq(u, Len(ip) + 1, Len(u))
        fp == IF r # <<>> /\ Head(r) = "." THEN leadingDigits(Tail(r)) ELSE <<>>
        d1 == IF Len(fp) >= 1 THEN DigitValue(fp[1]) ELSE 0
        d2 == IF Len(fp) >= 2 THEN DigitValue(fp[2]) ELSE 0
        h == digitsValue(ip, 0) * 100 + 10 * d1 + d2
    IN  IF neg THEN 0 - h ELSE h

\* const configs = { temperature: { min: 0, max: 2, step: 0.1 }, ... }
configs ==
    [temperature |-> [min |-> 0, max |-> 200, step |-> 10],
     top_p |-> [min |-> 0, max |-> 100, step |-> 5],
     top_k |-> [min |-> 100, max |-> 10000, step |-> 100],
     max_tokens |-> [min |-> 100, max |-> 100000, step |-> 100],
     frequency_penalty |-> [min |-> -200, max |-> 200, step |-> 10],
     presence_penalty |-> [min |-> -200, max |-> 200, step |-> 10]]

\* An input that takes what the user enters as it is (type="number").
rangeValueUnclamped(config, raw) == numberToString(raw)

\* <input type="range" min max step>: the value the element holds when the user
\* moves the thumb to raw: clamped to [min, max] and put on the nearest step
\* counted from min (value sanitization of the range state).
rangeValue(config, raw) ==
    LET clamped == IF raw < config.min THEN config.min
                   ELSE IF raw > config.max THEN config.max ELSE raw
        k == ((clamped - config.min) * 2 + config.step) \div (2 * config.step)
        aligned == config.min + k * config.step
    IN  numberToString(IF aligned > config.max THEN aligned - config.step ELSE aligned)

\* ---------------------------------------------------------------- inputs

\* Texts the user types into the textarea.
MessageInputs ==
    { <<>>, <<" ">>, <<"h", "i">>, <<" ", "h", "i", "\n">> }

ParamKeys ==
    {"temperature", "top_p", "top_k", "max_tokens", "frequency_penalty", "presence_penalty"}

\* Slider movements tried: <<key, position of the thumb in hundredths>>.
SliderInputs == { <<"temperature", 70>>, <<"temperature", 200>> }

Choice(content) == Obj([message |-> Obj([content |-> content])])

\* Bodies response.json() yields on an ok response.
OkBodies ==
    { Obj([choices |-> Arr(<<Choice(Str(TryThisRepo))>>)]),
      Obj([choices |-> Arr(<<Choice(Str(<<>>))>>)]),
      Obj([choices |-> Arr(<<>>)]),
      Obj([id |-> Str(<<"x">>)]),
      Null }

\* Bodies response.json() yields on a response that is not ok.
ErrorBodies ==
    { Obj([error |-> Str(ModelNotLoaded)]),
      Obj([error |-> Str(<<>>)]),
      Obj([error |-> Null]),
      Obj([detail |-> Str(<<"x">>)]),
      Null }

\* The path of the Logout page and the path it sends the router to.
LogoutPath == <<"/", "l", "o", "g", "o", "u", "t">>
LoginPath == <<"/", "l", "o", "g", "i", "n">>

\* ---------------------------------------------------------------- initial state

InitialParameters ==
    [temperature |-> 70, top_p |-> 90, top_k |-> 4000, max_tokens |-> 25600,
     frequency_penalty |-> 0, presence_penalty |-> 0]

Init ==
    /\ message = <<>>
    /\ responses = <<>>
    /\ currentResponseIndex = 0
    /\ isLoading = FALSE
    /\ parameters = InitialParameters
    /\ inflight = {}
    /\ fetchCount = 0
    /\ served = <<>>
    /\ apiStatus = "checking"
    /\ probe = "fetch"
    /\ resetCount = 0
    /\ defaultsFetching = 0
    /\ defaultsParsing = [ok \in BOOLEAN |-> 0]
    /\ lastAlert = Undefined
    /\ response = Null
    /\ loading = FALSE
    /\ error = Null
    /\ fileType = Null
    /\ uploads = {}
    /\ uploadCount = 0
    /\ isAuthenticated = FALSE
    /\ isSessionLoading = TRUE
    /\ user = Null
    /\ isUserLoading = TRUE
    /\ mounted = FALSE
    /\ hookChanges = 0
    /\ logoutCalls = 0
    /\ loggingOut = 0
    /\ lastLogout = "none"
    /\ route = LogoutPath

\* ---------------------------------------------------------------- records

\* A record that reads the parameters of the store when the answer arrives.
newResponseLive(inv, content) ==
    [prompt |-> inv.message, content |-> content, parameters |-> parameters]

\* const newResponse = { prompt, content, parameters: { ...parameters } }
newResponse(inv, content) ==
    [prompt |-> inv.message, content |-> content, parameters |-> inv.parameters]

\* An error record that prints the error field without a fallback.
apiErrorResponseNoFallback(inv, errorData) ==
    [prompt |-> inv.message,
     content |-> Str(ErrorPrefix \o TemplateStr(Prop(errorData, "error"))),
     isError |-> TRUE]

\* const errorResponse = { prompt, content: `Error: ${errorData.error || 'Unknown error'}`, isError: true }
apiErrorResponse(inv, errorData) ==
    [prompt |-> inv.message,
     content |-> Str(ErrorPrefix \o TemplateStr(Or(Prop(errorData, "error"), Str(UnknownError)))),
     isError |-> TRUE]

\* A catch block that reports the failure as an API error.
networkErrorResponseAsApiError(inv, errorMessage) ==
    [prompt |-> inv.message,
     content |-> Str(ErrorPrefix \o errorMessage),
     isError |-> TRUE]

\* const errorResponse = { prompt, content: `Network error: ${error.message}`, isError: true }
networkErrorResponse(inv, errorMessage) ==
    [prompt |-> inv.message,
     content |-> Str(NetworkErrorPrefix \o errorMessage),
     isError |-> TRUE]

\* The extraction without its fallback.
completionContentNoFallback(data) ==
    OptProp(OptProp(OptIndex(Prop(data, "choices"), 0), "message"), "content")

\* data.choices?.[0]?.message?.content || 'No response content'
completionContent(data) ==
    Or(OptProp(OptProp(OptIndex(Prop(data, "choices"), 0), "message"), "content"),
       Str(NoResponseContent))

\* rec.isError as the presentation reads it (undefined is falsy)
isErrorOf(rec) == "isError" \in DOMAIN rec /\ rec.isError

\* ---------------------------------------------------------------- the form

\* Object.entries(parameters) in the render throws when parameters is undefined
\* or null (line 238); the component is then unmounted and offers no control.
Rendered == parameters # Undefined /\ parameters # Null

\* onChange={(e) => setMessage(e.target.value)}; the textarea is disabled={isLoading}
TypeMessage(m) ==
    /\ Rendered
    /\ ~isLoading
    /\ message' = m
    /\ UNCHANGED <<responses, currentResponseIndex, isLoading, parameters,
                   inflight, fetchCount, served, probeVars, resetVars, pageVars>>

\* What the render makes of a key of parameters: const config = configs[key];
\* if (!config) return null; otherwise the range input of the key.
sliderOf(key) == IF key \in DOMAIN configs THEN "input" ELSE "null"

\* onChange={(e) => setParameters(prev => ({ ...prev, [key]: parseFloat(e.target.value) }))}
\* A slider is rendered for each key of parameters that has a config
\* (if (!config) return null).
SetParameter(key, raw) ==
    /\ Rendered
    /\ key \in DOMAIN parameters
    /\ sliderOf(key) = "input"
    /\ parameters' = [parameters EXCEPT ![key] = parseFloat(rangeValue(configs[key], raw))]
    /\ UNCHANGED <<message, responses, currentResponseIndex, isLoading,
                   inflight, fetchCount, served, probeVars, resetVars, pageVars>>

\* A submit control that waits for a healthy service.
submitDisabledUnlessHealthy ==
    isLoading \/ ~truthy(Str(trim(message))) \/ apiStatus # "healthy"

\* A submit control that forgets the busy flag.
submitDisabledIgnoringLoading == ~truthy(Str(trim(message)))

\* disabled={isLoading || !message.trim()}
submitDisabled == isLoading \/ ~truthy(Str(trim(message)))

\* A request body that carries the prompt alone.
requestBodyWithoutParameters(prompt, params) ==
    [messages |-> <<[role |-> "user", content |-> prompt]>>]

\* const requestBody = { messages: [{ role: "user", content: message }], ...parameters }
\* The spread comes second: a key of parameters named messages would replace the prompt.
requestBody(prompt, params) ==
    [k \in {"messages"} \cup DOMAIN params |->
        IF k \in DOMAIN params THEN params[k]
        ELSE <<[role |-> "user", content |-> prompt]>>]

\* handleSubmit up to its first await: the validation, setIsLoading(true), the
\* request body built from message and parameters, and the fetch call.  What the
\* rest of the invocation reads (message, parameters) is what this render closed over.
handleSubmit ==
    IF ~truthy(Str(trim(message)))
    THEN UNCHANGED vars
    ELSE /\ isLoading' = TRUE
         /\ fetchCount' = fetchCount + 1
         /\ inflight' = inflight \cup
                {[req |-> fetchCount + 1, message |-> message,
                  parameters |-> parameters,
                  body |-> requestBody(message, parameters), pc |-> "fetch"]}
         /\ UNCHANGED <<message, responses, currentResponseIndex, parameters, served, probeVars, resetVars, pageVars>>

\* The user activates the submit control of the form; a disabled control
\* dispatches no submit event.  cap bounds the requests of one behaviour.
SubmitWithin(cap) ==
    /\ Rendered
    /\ fetchCount < cap
    /\ IF submitDisabled THEN UNCHANGED vars ELSE handleSubmit

ClickSubmit == SubmitWithin(MaxSubmits)

\* ---------------------------------------------------------------- the rest of handleSubmit

\* A history that keeps the latest record only: setResponses([rec]).
pushLatestOnly(inv, rec) ==
    /\ responses' = <<rec>>
    /\ currentResponseIndex' = 0
    /\ served' = <<inv.req>>

\* A history that leaves the carousel where the user had put it.
pushKeepingIndex(inv, rec) ==
    /\ responses' = <<rec>> \o responses
    /\ currentResponseIndex' = currentResponseIndex
    /\ served' = <<inv.req>> \o served

\* A history that appends at the end: setResponses(prev => [...prev, rec]).
pushAtEnd(inv, rec) ==
    /\ responses' = responses \o <<rec>>
    /\ currentResponseIndex' = 0
    /\ served' = served \o <<inv.req>>

\* setResponses(prev => [rec, ...prev]); setCurrentResponseIndex(0)
push(inv, rec) ==
    /\ responses' = <<rec>> \o responses
    /\ currentResponseIndex' = 0
    /\ served' = <<inv.req>> \o served

\* A handler whose failure path returns without clearing the flag.
finallyBlockSkipped(inv) ==
    /\ isLoading' = isLoading
    /\ inflight' = inflight \ {inv}

\* finally { setIsLoading(false) }, after which the invocation is over
finallyBlock(inv) ==
    /\ isLoading' = FALSE
    /\ inflight' = inflight \ {inv}

\* A catch block that only logs the failure.
catchBlockSilent(inv, errorMessage) ==
    /\ finallyBlock(inv)
    /\ UNCHANGED <<message, parameters, fetchCount, responses, currentResponseIndex, served, probeVars, resetVars, pageVars>>

\* catch (error) { ... } finally { ... }
catchBlock(inv, errorMessage) ==
    /\ push(inv, networkErrorResponse(inv, errorMessage))
    /\ finallyBlock(inv)
    /\ UNCHANGED <<message, parameters, fetchCount, probeVars, resetVars, pageVars>>

\* await fetch(...) resolves with a response; the invocation goes on to
\* await response.json() in the branch response.ok selects.
FetchResolves(inv, ok) ==
    /\ inv \in inflight
    /\ inv.pc = "fetch"
    /\ inflight' = (inflight \ {inv}) \cup
            {[inv EXCEPT !.pc = IF ok THEN "json_ok" ELSE "json_error"]}
    /\ UNCHANGED <<message, responses, currentResponseIndex, isLoading,
                   parameters, fetchCount, served, probeVars, resetVars, pageVars>>

\* await fetch(...) rejects: no HTTP response
FetchRejects(inv) ==
    /\ inv \in inflight
    /\ inv.pc = "fetch"
    /\ catchBlock(inv, FailedToFetch)

\* await response.json() rejects in either branch: the body is not JSON
JsonRejects(inv) ==
    /\ inv \in inflight
    /\ inv.pc \in {"json_ok", "json_error"}
    /\ catchBlock(inv, UnexpectedEndOfJSON)

\* if (response.ok) { const data = await response.json(); ... }
JsonOk(inv, data) ==
    /\ inv \in inflight
    /\ inv.pc = "json_ok"
    /\ IF Nullish(data)
       THEN catchBlock(inv, CannotReadNull)     \* data.choices throws a TypeError
       ELSE /\ push(inv, newResponse(inv, completionContent(data)))
            /\ finallyBlock(inv)
            /\ UNCHANGED <<message, parameters, fetchCount, probeVars, resetVars, pageVars>>

\* else { const errorData = await response.json(); ... }
JsonError(inv, errorData) ==
    /\ inv \in inflight
    /\ inv.pc = "json_error"
    /\ IF Nullish(errorData)
       THEN catchBlock(inv, CannotReadNull)     \* errorData.error throws a TypeError
       ELSE /\ push(inv, apiErrorResponse(inv, errorData))
            /\ finallyBlock(inv)
            /\ UNCHANGED <<message, parameters, fetchCount, probeVars, resetVars, pageVars>>

\* ---------------------------------------------------------------- the carousel

\* A previous button that stops at the first record.
previousIndexNoWrap(prev, length) == IF prev > 0 THEN prev - 1 ELSE 0

\* prev => prev > 0 ? prev - 1 : responses.length - 1
previousIndex(prev, length) == IF prev > 0 THEN prev - 1 ELSE length - 1

\* A next button that does not wrap.
nextIndexNoWrap(prev, length) == prev + 1

\* prev => prev < responses.length - 1 ? prev + 1 : 0
nextIndex(prev, length) == IF prev < length - 1 THEN prev + 1 ELSE 0

\* disabled={responses.length <= 1}
navDisabled == Len(responses) <= 1

\* The carousel is rendered when responses.length > 0.
ClickPrevious ==
    /\ Rendered
    /\ Len(responses) > 0
    /\ IF navDisabled THEN UNCHANGED vars
       ELSE /\ currentResponseIndex' = previousIndex(currentResponseIndex, Len(responses))
            /\ UNCHANGED <<message, responses, isLoading, parameters,
                           inflight, fetchCount, served, probeVars, resetVars, pageVars>>

\* A next button that also gives up waiting for the answer.
ClickNextClearingLoading ==
    /\ Rendered
    /\ Len(responses) > 0
    /\ IF navDisabled THEN UNCHANGED vars
       ELSE /\ currentResponseIndex' = nextIndex(currentResponseIndex, Len(responses))
            /\ isLoading' = FALSE
            /\ UNCHANGED <<message, responses, parameters,
                           inflight, fetchCount, served, probeVars, resetVars, pageVars>>

\* onClick={() => setCurrentResponseIndex(prev => prev < responses.length - 1 ? prev + 1 : 0)}
ClickNext ==
    /\ Rendered
    /\ Len(responses) > 0
    /\ IF navDisabled THEN UNCHANGED vars
       ELSE /\ currentResponseIndex' = nextIndex(currentResponseIndex, Len(responses))
            /\ UNCHANGED <<message, responses, isLoading, parameters,
                           inflight, fetchCount, served, probeVars, resetVars, pageVars>>

\* A row of dots that does not follow the length of the history.
dotRenderedForAny(index) == Len(responses) > 1

\* {responses.length > 1 && responses.map((_, index) => <button .../>)}: the
\* dots are rendered when responses.length > 1, one per index of responses.
dotRendered(index) ==
    /\ Len(responses) > 1
    /\ index \in 0 .. Len(responses) - 1

\* onClick={() => setCurrentResponseIndex(index)} of the dot of index.
ClickDot(index) ==
    /\ Rendered
    /\ dotRendered(index)
    /\ currentResponseIndex' = index
    /\ UNCHANGED <<message, responses, isLoading, parameters,
                   inflight, fetchCount, served, probeVars, resetVars, pageVars>>

\* ---------------------------------------------------------------- specification

\* One of the promises a handleSubmit invocation awaits settles; the bodies
\* the completion service answers with are drawn from okBodies and errorBodies.
Settling(okBodies, errorBodies) ==
    \E inv \in inflight :
        \/ \E ok \in BOOLEAN : FetchResolves(inv, ok)
        \/ FetchRejects(inv)
        \/ JsonRejects(inv)
        \/ \E data \in okBodies : JsonOk(inv, data)
        \/ \E errorData \in errorBodies : JsonError(inv, errorData)

Settle == Settling(OkBodies, ErrorBodies)

Next ==
    \/ \E m \in MessageInputs : TypeMessage(m)
    \/ \E kv \in SliderInputs : SetParameter(kv[1], kv[2])
    \/ ClickSubmit
    \/ Settle
    \/ ClickPrevious
    \/ ClickNext
    \/ \E index \in 0 .. MaxSubmits : ClickDot(index)

Spec == Init /\ [][Next]_vars

\* Every promise the handler awaits settles: the claims about what follows the
\* resolution of a request are read under this assumption.
FairSpec == Spec /\ WF_vars(Settle)

\* ---------------------------------------------------------------- checkHealth

Healthy == <<"h", "e", "a", "l", "t", "h", "y">>
Degraded == <<"d", "e", "g", "r", "a", "d", "e", "d">>

\* Bodies response.json() yields for GET /health.
HealthBodies ==
    { Obj([status |-> Str(Healthy)]),
      Obj([status |-> Str(Degraded)]),
      Obj([uptime |-> Str(<<"x">>)]),
      Str(<<"o", "k">>),
      Null }

\* A test that takes any status text for health.
healthStatusOfAnyStatus(data) ==
    IF truthy(Prop(data, "status")) THEN "healthy" ELSE "partial"

\* if (data.status === 'healthy') 'healthy' else 'partial'
healthStatusOf(data) ==
    IF Prop(data, "status") = Str(Healthy) THEN "healthy" ELSE "partial"

\* An effect without its dependency array runs, and probes, again.
probeEndRestarts == "fetch"

\* useEffect(() => { checkHealth() }, []): one invocation, which then is over
probeEnd == "done"

\* catch (error) { setApiStatus('error') }
healthCatch ==
    /\ apiStatus' = "error"
    /\ probe' = probeEnd

\* await fetch(`${API_BASE_URL}/health`) resolves, whatever the HTTP status
HealthFetchResolves ==
    /\ probe = "fetch"
    /\ probe' = "json"
    /\ UNCHANGED <<message, responses, currentResponseIndex, isLoading, parameters,
                   inflight, fetchCount, served, apiStatus, resetVars, pageVars>>

\* await fetch(...) rejects
HealthFetchRejects ==
    /\ probe = "fetch"
    /\ healthCatch
    /\ UNCHANGED <<message, responses, currentResponseIndex, isLoading, parameters,
                   inflight, fetchCount, served, resetVars, pageVars>>

\* await response.json() rejects: the body is not JSON
HealthJsonRejects ==
    /\ probe = "json"
    /\ healthCatch
    /\ UNCHANGED <<message, responses, currentResponseIndex, isLoading, parameters,
                   inflight, fetchCount, served, resetVars, pageVars>>

\* const data = await response.json(); if (data.status === 'healthy') ...
HealthJson(data) ==
    /\ probe = "json"
    /\ IF Nullish(data)
       THEN healthCatch                          \* data.status throws a TypeError
       ELSE /\ apiStatus' = healthStatusOf(data)
            /\ probe' = probeEnd
    /\ UNCHANGED <<message, responses, currentResponseIndex, isLoading, parameters,
                   inflight, fetchCount, served, resetVars, pageVars>>

HealthSettle ==
    \/ HealthFetchResolves
    \/ HealthFetchRejects
    \/ HealthJsonRejects
    \/ \E data \in HealthBodies : HealthJson(data)

\* Cap on the completion requests of one behaviour of HealthSpec.
MaxProbeSubmits == 1

\* The health probe next to the form and the completion requests.
HealthNext ==
    \/ HealthSettle
    \/ \E m \in MessageInputs : TypeMessage(m)
    \/ SubmitWithin(MaxProbeSubmits)
    \/ Settle

HealthSpec == Init /\ [][HealthNext]_vars

\* The probe's promises settle.
HealthFairSpec == HealthSpec /\ WF_vars(HealthSettle)

\* ---------------------------------------------------------------- the carousel alone

\* Cap on the requests of one behaviour of CarouselSpec: the history grows to
\* this length, so that an append can find the carousel away from index 0.
MaxHistory == 3

CarouselMessages == { <<>>, <<"h", "i">> }

CarouselOkBodies == { Obj([choices |-> Arr(<<Choice(Str(TryThisRepo))>>)]) }

CarouselErrorBodies == { Obj([error |-> Str(ModelNotLoaded)]) }

\* The form, the completion requests and the carousel, with one body of each
\* kind, over histories of up to MaxHistory records.
CarouselNext ==
    \/ \E m \in CarouselMessages : TypeMessage(m)
    \/ SubmitWithin(MaxHistory)
    \/ Settling(CarouselOkBodies, CarouselErrorBodies)
    \/ ClickPrevious
    \/ ClickNext
    \/ \E index \in 0 .. MaxHistory : ClickDot(index)

CarouselSpec == Init /\ [][CarouselNext]_vars

\* ---------------------------------------------------------------- loadDefaults

ResetDone == <<"P", "a", "r", "a", "m", "e", "t", "e", "r", "s", " ", "r", "e", "s", "e", "t", " ", "t", "o", " ", "d", "e", "f", "a", "u", "l", "t", "s", "!">>
FailedToLoadDefaults == <<"F", "a", "i", "l", "e", "d", " ", "t", "o", " ", "l", "o", "a", "d", " ", "d", "e", "f", "a", "u", "l", "t", "s", ":", " ">>

\* Defaults objects the completion service answers with (numbers in hundredths):
\* its own six values, a temperature above the slider's range, a key the client
\* has no slider for, and an object with one key only.
ServerDefaults ==
    [temperature |-> 100, top_p |-> 95, top_k |-> 5000, max_tokens |-> 51200,
     frequency_penalty |-> 10, presence_penalty |-> -10]

HotDefaults == [ServerDefaults EXCEPT !.temperature = 500]

SeededDefaults ==
    [k \in ParamKeys \cup {"seed"} |-> IF k = "seed" THEN 4200 ELSE ServerDefaults[k]]

LoneDefaults == [temperature |-> 100]

\* Bodies response.json() of /parameters/defaults yields.
DefaultsBodies ==
    { Obj([defaults |-> ServerDefaults]),
      Obj([defaults |-> HotDefaults]),
      Obj([defaults |-> SeededDefaults]),
      Obj([defaults |-> LoneDefaults]),
      Obj([defaults |-> Null]),
      Obj([error |-> Str(ModelNotLoaded)]),
      Null }

chatVars == <<message, responses, currentResponseIndex, isLoading, inflight, fetchCount, served>>

\* onClick={loadDefaults}, up to the first await: the button is never disabled,
\* so a second invocation can start while the first is pending.  cap bounds the
\* invocations of one behaviour.
ResetWithin(cap) ==
    /\ Rendered
    /\ resetCount < cap
    /\ resetCount' = resetCount + 1
    /\ defaultsFetching' = defaultsFetching + 1
    /\ UNCHANGED <<pageVars, chatVars, parameters, probeVars, defaultsParsing, lastAlert>>

\* await fetch(/parameters/defaults) resolves with a response whose ok flag is
\* ok; loadDefaults does not read the flag.
DefaultsFetchResolves(ok) ==
    /\ defaultsFetching > 0
    /\ defaultsFetching' = defaultsFetching - 1
    /\ defaultsParsing' = [defaultsParsing EXCEPT ![ok] = @ + 1]
    /\ UNCHANGED <<pageVars, chatVars, parameters, probeVars, resetCount, lastAlert>>

\* catch (error) { alert('Failed to load defaults: ' + error.message) }
defaultsCatch(errorMessage) ==
    /\ lastAlert' = Str(FailedToLoadDefaults \o errorMessage)
    /\ parameters' = parameters

DefaultsFetchRejects ==
    /\ defaultsFetching > 0
    /\ defaultsFetching' = defaultsFetching - 1
    /\ defaultsCatch(FailedToFetch)
    /\ UNCHANGED <<pageVars, chatVars, probeVars, resetCount, defaultsParsing>>

\* await response.json() rejects: the body is not JSON.
DefaultsJsonRejects(ok) ==
    /\ defaultsParsing[ok] > 0
    /\ defaultsParsing' = [defaultsParsing EXCEPT ![ok] = @ - 1]
    /\ defaultsCatch(UnexpectedEndOfJSON)
    /\ UNCHANGED <<pageVars, chatVars, probeVars, resetCount, defaultsFetching>>

\* A reset that copies the fetched keys over the previous set:
\* setParameters(prev => ({ ...prev, ...value })).
setParametersMerging(value) ==
    parameters' =
        IF ~Rendered \/ value \in {Undefined, Null} THEN parameters
        ELSE [k \in DOMAIN parameters \cup DOMAIN value |->
                 IF k \in DOMAIN value THEN value[k] ELSE parameters[k]]

\* setParameters(value).  Once the render has thrown the component is
\* unmounted and a state update has no effect.
setParameters(value) ==
    parameters' = IF Rendered THEN value ELSE parameters

\* The rest of loadDefaults once response.json() has resolved with data:
\* setParameters(data.defaults); alert('Parameters reset to defaults!').
\* data.defaults on null throws into the catch.
DefaultsJson(ok, data) ==
    /\ defaultsParsing[ok] > 0
    /\ defaultsParsing' = [defaultsParsing EXCEPT ![ok] = @ - 1]
    /\ IF Nullish(data)
       THEN defaultsCatch(CannotReadNull)
       ELSE /\ setParameters(Prop(data, "defaults"))
            /\ lastAlert' = Str(ResetDone)
    /\ UNCHANGED <<pageVars, chatVars, probeVars, resetCount, defaultsFetching>>

\* ---------------------------------------------------------------- the parameter store alone

\* Cap on the loadDefaults invocations of one behaviour of StoreSpec.
MaxResets == 2

\* Slider movements tried, some of them past the ends of the track or between steps.
StoreSliderInputs ==
    { <<"temperature", -100>>, <<"temperature", 500>>, <<"temperature", 74>>,
      <<"top_p", 103>>, <<"top_k", 0>>, <<"max_tokens", 100050>>,
      <<"frequency_penalty", -250>>, <<"presence_penalty", 250>> }

\* The sliders and the reset button.
StoreNext ==
    \/ \E kv \in StoreSliderInputs : SetParameter(kv[1], kv[2])
    \/ ResetWithin(MaxResets)
    \/ \E ok \in BOOLEAN : DefaultsFetchResolves(ok)
    \/ DefaultsFetchRejects
    \/ \E ok \in BOOLEAN : DefaultsJsonRejects(ok)
    \/ \E ok \in BOOLEAN : \E data \in DefaultsBodies : DefaultsJson(ok, data)

StoreSpec == Init /\ [][StoreNext]_vars

\* ---------------------------------------------------------------- requests next to the store

\* Caps on the requests and on the loadDefaults invocations of one behaviour
\* of SnapshotSpec.
MaxSnapshotSubmits == 2
MaxSnapshotResets == 1

SnapshotSliderInputs == { <<"temperature", 200>> }

SnapshotDefaultsBodies ==
    { Obj([defaults |-> ServerDefaults]), Obj([defaults |-> SeededDefaults]) }

\* The form and the completion requests next to the sliders and the reset
\* button, with a defaults endpoint that answers.
SnapshotNext ==
    \/ \E m \in CarouselMessages : TypeMessage(m)
    \/ \E kv \in SnapshotSliderInputs : SetParameter(kv[1], kv[2])
    \/ SubmitWithin(MaxSnapshotSubmits)
    \/ Settling(CarouselOkBodies, CarouselErrorBodies)
    \/ ResetWithin(MaxSnapshotResets)
    \/ DefaultsFetchResolves(TRUE)
    \/ \E data \in SnapshotDefaultsBodies : DefaultsJson(TRUE, data)

SnapshotSpec == Init /\ [][SnapshotNext]_vars

\* ---------------------------------------------------------------- the transcript viewer

ErrorReadingFile == <<"E", "r", "r", "o", "r", " ", "r", "e", "a", "d", "i", "n", "g", " ", "f", "i", "l", "e", ":", " ">>
UnexpectedToken == <<"U", "n", "e", "x", "p", "e", "c", "t", "e", "d", " ", "t", "o", "k", "e", "n">>
NotReadable == <<"T", "h", "e", " ", "f", "i", "l", "e", " ", "c", "o", "u", "l", "d", " ", "n", "o", "t", " ", "b", "e", " ", "r", "e", "a", "d">>
JsonType == <<"j", "s", "o", "n">>
TextType == <<"t", "e", "x", "t">>

UpperCase == <<"A", "B", "C", "D", "E", "F", "G", "H", "I", "J", "K", "L", "M",
               "N", "O", "P", "Q", "R", "S", "T", "U", "V", "W", "X", "Y", "Z">>
LowerCase == <<"a", "b", "c", "d", "e", "f", "g", "h", "i", "j", "k", "l", "m",
               "n", "o", "p", "q", "r", "s", "t", "u", "v", "w", "x", "y", "z">>

\* s.toLowerCase()
toLowerCase(s) ==
    [i \in 1 .. Len(s) |->
        IF \E k \in 1 .. Len(UpperCase) : UpperCase[k] = s[i]
        THEN LowerCase[CHOOSE k \in 1 .. Len(UpperCase) : UpperCase[k] = s[i]]
        ELSE s[i]]

\* s.split('.').pop(): what follows the last dot of s, the whole of s when it has none.
RECURSIVE lastSegment(_)
lastSegment(s) ==
    IF \A i \in 1 .. Len(s) : s[i] # "." THEN s
    ELSE lastSegment(Tail(s))

\* const extension = file.name.split('.').pop().toLowerCase()
extensionOf(name) == toLowerCase(lastSegment(name))

\* JSON.parse(text) on the texts used as inputs: null, {}, a string literal
\* without escapes; anything else is a SyntaxError.
JSONparse(text) ==
    IF text = <<>> THEN [ok |-> FALSE, message |-> UnexpectedEndOfJSON]
    ELSE IF text = <<"n", "u", "l", "l">> THEN [ok |-> TRUE, value |-> Null]
    ELSE IF text = <<"{", "}">> THEN [ok |-> TRUE, value |-> Obj(<<>>)]
    ELSE IF /\ Len(text) >= 2
            /\ text[1] = "\"" /\ text[Len(text)] = "\""
            /\ \A i \in 2 .. Len(text) - 1 : text[i] \notin {"\"", "\\"}
         THEN [ok |-> TRUE, value |-> Str(SubSeq(text, 2, Len(text) - 1))]
    ELSE [ok |-> FALSE, message |-> UnexpectedToken]

\* What the file dialog hands over: no file, or a file with its name, its
\* text and whether it can be read.
NoFile == Undefined

File(name, text, readable) ==
    [t |-> "file", name |-> name, text |-> text, readable |-> readable]

FileInputs ==
    { NoFile,
      File(<<"a", ".", "j", "s", "o", "n">>, <<"{", "}">>, TRUE),
      File(<<"A", ".", "J", "S", "O", "N">>, <<"\"", "h", "i", "\"">>, TRUE),
      File(<<"a", ".", "j", "s", "o", "n">>, <<"h", "i">>, TRUE),
      File(<<"a", ".", "t", "x", "t">>, <<"h", "i">>, TRUE),
      File(<<"j", "s", "o", "n">>, <<"h", "i">>, TRUE),
      File(<<"a", ".", "t", "x", "t">>, <<"h", "i">>, FALSE) }

\* Cap on the files handed to handleFileUpload in one behaviour.
MaxUploads == 3

\* handleFileUpload up to await file.text(): if (!file) return;
\* setLoading(true); setError(null).
handleFileUpload(file) ==
    IF file = NoFile
    THEN UNCHANGED vars
    ELSE /\ loading' = TRUE
         /\ error' = Null
         /\ uploadCount' = uploadCount + 1
         /\ uploads' = uploads \cup {[id |-> uploadCount + 1, file |-> file]}
         /\ UNCHANGED <<response, fileType, generateVars, logoutVars>>

\* The user opens the file dialog and it fires onChange.  The upload button is
\* disabled={loading} while no response is shown; "Upload New File", shown
\* with a response, is never disabled.
SelectFile(file) ==
    /\ uploadCount < MaxUploads
    /\ truthy(response) \/ ~loading
    /\ handleFileUpload(file)

\* catch (err) { setError('Error reading file: ' + err.message) }
viewerCatch(errorMessage) ==
    /\ error' = Str(ErrorReadingFile \o errorMessage)
    /\ UNCHANGED <<response, fileType>>

\* finally { setLoading(false) }
viewerFinally(u) ==
    /\ loading' = FALSE
    /\ uploads' = uploads \ {u}

\* await file.text() resolves: the rest of handleFileUpload.
TextResolves(u) ==
    /\ u.file.readable
    /\ LET text == u.file.text
           parsed == JSONparse(text)
       IN  IF extensionOf(u.file.name) = JsonType
           THEN IF parsed.ok
                THEN /\ response' = parsed.value
                     /\ fileType' = Str(JsonType)
                     /\ UNCHANGED error
                ELSE viewerCatch(parsed.message)
           ELSE /\ response' = Str(text)
                /\ fileType' = Str(TextType)
                /\ UNCHANGED error
    /\ viewerFinally(u)
    /\ UNCHANGED <<uploadCount, generateVars, logoutVars>>

\* await file.text() rejects: the file cannot be read.
TextRejects(u) ==
    /\ ~u.file.readable
    /\ viewerCatch(NotReadable)
    /\ viewerFinally(u)
    /\ UNCHANGED <<uploadCount, generateVars, logoutVars>>

\* clearResponse, behind the "Clear Response" button shown with a response.
clearResponse ==
    /\ truthy(response)
    /\ response' = Null
    /\ error' = Null
    /\ fileType' = Null
    /\ UNCHANGED <<loading, uploads, uploadCount, generateVars, logoutVars>>

ViewerNext ==
    \/ \E file \in FileInputs : SelectFile(file)
    \/ \E u \in uploads : TextResolves(u)
    \/ \E u \in uploads : TextRejects(u)
    \/ clearResponse

ViewerSpec == Init /\ [][ViewerNext]_vars

\* ---------------------------------------------------------------- the Logout page

\* User objects useUser() hands out: a refresh gives a new object for the same user.
Users ==
    { Obj([userId |-> Str(<<"u", "1">>), loginIds |-> Arr(<<>>)]),
      Obj([userId |-> Str(<<"u", "1">>), loginIds |-> Arr(<<Str(<<"a">>)>>)]) }

\* What useSession() and useUser() can return in a render.
HookStates ==
    [isAuthenticated : BOOLEAN, isSessionLoading : BOOLEAN,
     user : Users \cup {Null}, isUserLoading : BOOLEAN]

hooks ==
    [isAuthenticated |-> isAuthenticated, isSessionLoading |-> isSessionLoading,
     user |-> user, isUserLoading |-> isUserLoading]

\* Cap on the changes of the hooks' values in one behaviour.
MaxHookChanges == 2

\* A catch block that logs the error and stays on the page.
logoutCatchStaying == route' = route

\* catch (error) { console.error('Logout error:', error); router.push('/login') }
logoutCatch == route' = LoginPath

\* handleLogout up to await sdk.logout()
handleLogout ==
    /\ logoutCalls' = logoutCalls + 1
    /\ loggingOut' = loggingOut + 1
    /\ UNCHANGED route

\* The body of the effect, run in a render whose hooks returned h.
logoutEffect(h) ==
    IF h.isAuthenticated /\ truthy(h.user)
    THEN handleLogout
    ELSE IF ~h.isSessionLoading /\ ~h.isUserLoading /\ ~h.isAuthenticated
    THEN route' = LoginPath /\ UNCHANGED <<logoutCalls, loggingOut>>
    ELSE UNCHANGED <<route, logoutCalls, loggingOut>>

setHooks(h) ==
    /\ isAuthenticated' = h.isAuthenticated
    /\ isSessionLoading' = h.isSessionLoading
    /\ user' = h.user
    /\ isUserLoading' = h.isUserLoading

\* The page is opened: the first render, with whatever the hooks return, and
\* the first run of the effect.
Mount(h) ==
    /\ ~mounted
    /\ mounted' = TRUE
    /\ setHooks(h)
    /\ logoutEffect(h)
    /\ UNCHANGED <<hookChanges, lastLogout, viewerVars, generateVars>>

\* A hook returns a new value: the page renders again and, a dependency of
\* the effect having changed, the effect runs again.  The page is gone once
\* the router has been sent to /login.
HookChange(h) ==
    /\ mounted
    /\ route = LogoutPath
    /\ hookChanges < MaxHookChanges
    /\ h # hooks
    /\ hookChanges' = hookChanges + 1
    /\ setHooks(h)
    /\ logoutEffect(h)
    /\ UNCHANGED <<mounted, lastLogout, viewerVars, generateVars>>

\* await sdk.logout() resolves: router.push('/login')
LogoutResolves ==
    /\ loggingOut > 0
    /\ loggingOut' = loggingOut - 1
    /\ lastLogout' = "resolved"
    /\ route' = LoginPath
    /\ UNCHANGED <<isAuthenticated, isSessionLoading, user, isUserLoading, mounted,
                   hookChanges, logoutCalls, viewerVars, generateVars>>

\* await sdk.logout() rejects: the catch block
LogoutRejects ==
    /\ loggingOut > 0
    /\ loggingOut' = loggingOut - 1
    /\ lastLogout' = "rejected"
    /\ logoutCatch
    /\ UNCHANGED <<isAuthenticated, isSessionLoading, user, isUserLoading, mounted,
                   hookChanges, logoutCalls, viewerVars, generateVars>>

LogoutSettle == LogoutResolves \/ LogoutRejects

LogoutNext ==
    \/ \E h \in HookStates : Mount(h)
    \/ \E h \in HookStates : HookChange(h)
    \/ LogoutResolves
    \/ LogoutRejects

LogoutSpec == Init /\ [][LogoutNext]_vars

\* Every sdk.logout() settles.
LogoutFairSpec == LogoutSpec /\ WF_vars(LogoutSettle)

\* ---------------------------------------------------------------- claims

Pending == inflight # {}

Latest == responses[1]

\* The text consists of whitespace only (the empty text included).
IsBlank(s) == \A i \in 1 .. Len(s) : s[i] \in Whitespace

\* The invocation inv ends in this step with one record put in front of the history.
Terminates(inv) ==
    /\ inv \in inflight
    /\ \A other \in inflight' : other.req # inv.req
    /\ Len(responses') = Len(responses) + 1

\* C1: at most one /chat/completions request is outstanding in every reachable
\* state, and while one is outstanding no step issues another request; a submit
\* attempted then changes nothing (no request, no record, nothing queued).
C1_SingleInFlight ==
    /\ [](Cardinality(inflight) <= 1)
    /\ [][Pending => /\ fetchCount' = fetchCount
                     /\ (ClickSubmit => UNCHANGED vars)]_vars

\* A request is outstanding while the form holds a prompt that would be accepted.
C1_Witness ==
    /\ Pending
    /\ isLoading
    /\ ~IsBlank(message)
    /\ fetchCount < MaxSubmits

\* C2: records are inserted in the order their submissions were accepted: the
\* history, newest first, lists the request ordinals in strictly decreasing order.
C2_InsertionOrder ==
    /\ Len(served) = Len(responses)
    /\ \A i, j \in 1 .. Len(served) : i < j => served[i] > served[j]

C2_Witness ==
    /\ Len(responses) = 2
    /\ served = <<2, 1>>

\* C3: whenever the busy flag is set it is eventually cleared, on every way the
\* awaited request can settle.
C3_FlagCleared == isLoading ~> ~isLoading

\* The flag is clear after a request whose body could not be parsed.
C3_Witness ==
    /\ ~isLoading
    /\ ~Pending
    /\ responses # <<>>
    /\ Latest.content = Str(NetworkErrorPrefix \o UnexpectedEndOfJSON)

\* C4: every accepted submission is either still pending or has exactly one
\* record in the history, never none and never two.
C4_ExactlyOneRecord ==
    /\ Len(served) = Len(responses)
    /\ Len(served) + Cardinality(inflight) = fetchCount
    /\ \A n \in 1 .. fetchCount :
          Cardinality({i \in 1 .. Len(served) : served[i] = n})
            + Cardinality({inv \in inflight : inv.req = n}) = 1

\* Two submissions were accepted and both terminated, one of them by a failure.
C4_Witness ==
    /\ fetchCount = 2
    /\ ~Pending
    /\ Len(responses) = 2
    /\ \E i \in 1 .. 2 : isErrorOf(responses[i])

\* C5: when the fetch rejects, or response.json() rejects in either branch, the
\* record appended is an error record whose content is "Network error: "
\* followed by the failure message.
C5_NetworkErrorRecord ==
    [][\A inv \in inflight :
          /\ FetchRejects(inv) =>
                /\ Terminates(inv)
                /\ isErrorOf(Latest')
                /\ Latest'.content = Str(NetworkErrorPrefix \o FailedToFetch)
          /\ JsonRejects(inv) =>
                /\ Terminates(inv)
                /\ isErrorOf(Latest')
                /\ Latest'.content = Str(NetworkErrorPrefix \o UnexpectedEndOfJSON)]_vars

\* Both kinds of transport failure have left their record.
C5_Witness ==
    /\ Len(responses) = 2
    /\ responses[1].content = Str(NetworkErrorPrefix \o UnexpectedEndOfJSON)
    /\ responses[2].content = Str(NetworkErrorPrefix \o FailedToFetch)
    /\ isErrorOf(responses[1])
    /\ isErrorOf(responses[2])

\* What C6 expects of the record for the error payload errorData.
ErrorFieldPresent(errorData) == "error" \in DOMAIN errorData.f

ErrorFieldUsable(errorData) ==
    /\ ErrorFieldPresent(errorData)
    /\ errorData.f.error.t = "string"
    /\ errorData.f.error.s # <<>>

\* C6 as stated: on a response that is not ok and carries an object payload, the
\* record is an error record with content "Error: " + payload.error for every
\* value of the error field that is present, "Error: Unknown error" only when
\* the field is missing.
C6_Original ==
    [][\A inv \in inflight : \A errorData \in ErrorBodies :
          (~Nullish(errorData) /\ JsonError(inv, errorData)) =>
              /\ isErrorOf(Latest')
              /\ Latest'.content =
                    Str(ErrorPrefix \o
                        (IF ErrorFieldPresent(errorData)
                         THEN TemplateStr(errorData.f.error)
                         ELSE UnknownError))]_vars

\* C6 amended: the content is "Error: " + payload.error when the error field is
\* a non-empty string, and "Error: Unknown error" when the field is missing,
\* null or the empty string.
C6_Amended ==
    [][\A inv \in inflight : \A errorData \in ErrorBodies :
          (~Nullish(errorData) /\ JsonError(inv, errorData)) =>
              /\ Terminates(inv)
              /\ isErrorOf(Latest')
              /\ Latest'.content =
                    Str(ErrorPrefix \o
                        (IF ErrorFieldUsable(errorData)
                         THEN errorData.f.error.s
                         ELSE UnknownError))]_vars

\* A structured error and an empty error field have each left their record.
C6_Witness ==
    /\ Len(responses) = 2
    /\ responses[1].content = Str(ErrorPrefix \o UnknownError)
    /\ responses[2].content = Str(ErrorPrefix \o ModelNotLoaded)
    /\ isErrorOf(responses[1])
    /\ isErrorOf(responses[2])

\* The content field of the first completion of an object payload, or Undefined.
FirstContentPresent(data) ==
    /\ "choices" \in DOMAIN data.f
    /\ data.f.choices.t = "array"
    /\ Len(data.f.choices.a) > 0
    /\ data.f.choices.a[1].t = "object"
    /\ "message" \in DOMAIN data.f.choices.a[1].f
    /\ data.f.choices.a[1].f.message.t = "object"
    /\ "content" \in DOMAIN data.f.choices.a[1].f.message.f

FirstContent(data) == data.f.choices.a[1].f.message.f.content

\* C7 as stated: on an ok response with an object payload the record is not an
\* error record, is inserted at index 0, and its content is the first
\* completion's content whenever that field is present, "No response content"
\* only when it is absent.
C7_Original ==
    [][\A inv \in inflight : \A data \in OkBodies :
          (~Nullish(data) /\ JsonOk(inv, data)) =>
              /\ ~isErrorOf(Latest')
              /\ SubSeq(responses', 2, Len(responses')) = responses
              /\ Latest'.content =
                    (IF FirstContentPresent(data)
                     THEN FirstContent(data)
                     ELSE Str(NoResponseContent))]_vars

\* C7 amended: the content is the first completion's content when that field is
\* present and not empty, and "No response content" when it is absent or empty.
C7_Amended ==
    [][\A inv \in inflight : \A data \in OkBodies :
          (~Nullish(data) /\ JsonOk(inv, data)) =>
              /\ Terminates(inv)
              /\ ~isErrorOf(Latest')
              /\ SubSeq(responses', 2, Len(responses')) = responses
              /\ currentResponseIndex' = 0
              /\ Latest'.prompt = inv.message
              /\ Latest'.content =
                    (IF FirstContentPresent(data) /\ FirstContent(data) # Str(<<>>)
                     THEN FirstContent(data)
                     ELSE Str(NoResponseContent))]_vars

\* A completion and an empty completion have each left their record.
C7_Witness ==
    /\ Len(responses) = 2
    /\ responses[1].content = Str(NoResponseContent)
    /\ responses[2].content = Str(TryThisRepo)
    /\ ~isErrorOf(responses[1])
    /\ ~isErrorOf(responses[2])

\* C8 as stated: every record appended, whichever way its request ended,
\* carries the parameter set its submission closed over when it was accepted.
C8_Original ==
    [][\A inv \in inflight :
          Terminates(inv) =>
              /\ "parameters" \in DOMAIN Latest'
              /\ Latest'.parameters = inv.parameters]_vars

\* C9: a submit attempted with an empty or whitespace-only prompt changes
\* nothing: no request, no record, and the flag, the index and the history stay.
C9_BlankSubmitNoOp ==
    [][(IsBlank(message) /\ (ClickSubmit \/ handleSubmit)) => UNCHANGED vars]_vars

\* A whitespace-only prompt is in the form while the submit control is reachable.
C9_Witness ==
    /\ message = <<" ">>
    /\ ~isLoading
    /\ fetchCount < MaxSubmits

\* C10: whenever the history is not empty, 0 <= currentIndex < length.
C10_IndexInRange ==
    Len(responses) > 0 =>
        /\ 0 <= currentResponseIndex
        /\ currentResponseIndex < Len(responses)

\* The index was moved off the front of a history of two records.
C10_Witness ==
    /\ Len(responses) = 2
    /\ currentResponseIndex = 1

\* C11: a step that appends a record puts it at index 0 with the earlier
\* records shifted by one and sets currentIndex to 0 wherever the carousel
\* was; the record then current is that of the latest accepted submission.
C11_PushResetsIndex ==
    [][Len(responses') # Len(responses) =>
          /\ Len(responses') = Len(responses) + 1
          /\ Tail(responses') = responses
          /\ currentResponseIndex' = 0
          /\ served'[currentResponseIndex' + 1] = fetchCount']_vars

\* The carousel is away from index 0 while the body of a third answer is read.
C11_Witness ==
    /\ Len(responses) = 2
    /\ currentResponseIndex = 1
    /\ \E inv \in inflight : inv.pc # "fetch"

\* C17: next advances the index by one and goes to 0 from the last index,
\* previous goes back by one and to length-1 from index 0, and both leave the
\* index where it is when the history has at most one record.
C17_NavigationWraps ==
    /\ [](Len(responses) > 1 =>
            /\ nextIndex(currentResponseIndex, Len(responses))
                 = (currentResponseIndex + 1) % Len(responses)
            /\ previousIndex(currentResponseIndex, Len(responses))
                 = (currentResponseIndex + Len(responses) - 1) % Len(responses))
    /\ [][/\ ClickNext =>
               currentResponseIndex' =
                   IF Len(responses) <= 1 THEN currentResponseIndex
                   ELSE (currentResponseIndex + 1) % Len(responses)
          /\ ClickPrevious =>
               currentResponseIndex' =
                   IF Len(responses) <= 1 THEN currentResponseIndex
                   ELSE (currentResponseIndex + Len(responses) - 1) % Len(responses)]_vars

\* The carousel stands on the last of three records.
C17_Witness ==
    /\ Len(responses) = 3
    /\ currentResponseIndex = 2

\* C12: apiStatus is 'checking' at the start, leaves it exactly once, for
\* healthy, partial or error, in the step that ends the one probe, and keeps
\* that value in every later state.
C12_StatusSetOnce ==
    /\ apiStatus = "checking"
    /\ [](apiStatus \in {"checking", "healthy", "partial", "error"})
    /\ [](apiStatus = "checking" <=> probe # "done")
    /\ [][apiStatus' # apiStatus =>
             /\ apiStatus = "checking"
             /\ apiStatus' \in {"healthy", "partial", "error"}
             /\ probe # "done"
             /\ probe' = "done"]_vars
    /\ [][probe = "done" => probe' = "done" /\ apiStatus' = apiStatus]_vars
    /\ <>[](apiStatus # "checking")

\* The status is set and a completion request has since come and gone.
C12_Witness ==
    /\ apiStatus = "healthy"
    /\ probe = "done"
    /\ fetchCount = 1
    /\ ~Pending

\* What C16 expects for the payload data of GET /health.
ExpectedStatus(data) ==
    IF data.t = "null" THEN "error"
    ELSE IF data.t = "object" /\ "status" \in DOMAIN data.f /\ data.f.status = Str(Healthy)
         THEN "healthy"
         ELSE "partial"

\* C16: a payload whose status is "healthy" gives healthy, every other payload
\* that can be read gives partial, and a failed request, a body that is not
\* JSON or a null payload gives error.
C16_HealthMapping ==
    [][/\ (HealthFetchRejects \/ HealthJsonRejects) => apiStatus' = "error"
       /\ \A data \in HealthBodies :
             HealthJson(data) => apiStatus' = ExpectedStatus(data)]_vars

\* The probe ended on a payload that reports another status.
C16_Witness ==
    /\ apiStatus = "partial"
    /\ probe = "done"


\* A payload with a defaults object to take the parameters from.
UsableDefaults(data) ==
    /\ data.t = "object"
    /\ "defaults" \in DOMAIN data.f
    /\ data.f.defaults \notin {Undefined, Null}

IsFailureAlert(a) ==
    /\ a.t = "string"
    /\ Len(a.s) >= Len(FailedToLoadDefaults)
    /\ SubSeq(a.s, 1, Len(FailedToLoadDefaults)) = FailedToLoadDefaults

InRange(key, value) == configs[key].min <= value /\ value <= configs[key].max

\* C13: a reset against a failing defaults endpoint (the fetch is rejected, the
\* response is not a success, or the payload has no usable defaults object)
\* leaves the parameters as they were and tells the user of the failure.
C13_Original ==
    [][/\ DefaultsFetchRejects => parameters' = parameters /\ IsFailureAlert(lastAlert')
       /\ \A ok \in BOOLEAN :
             /\ DefaultsJsonRejects(ok) => parameters' = parameters /\ IsFailureAlert(lastAlert')
             /\ \A data \in DefaultsBodies :
                   DefaultsJson(ok, data) /\ (~ok \/ ~UsableDefaults(data))
                       => parameters' = parameters /\ IsFailureAlert(lastAlert')]_vars

\* C14: a reset that succeeds replaces the parameters as a whole by the fetched
\* defaults object, whatever the sliders did while it was pending, and the
\* parameters never change but by one slider key or by a whole fetched object.
C14_WholesaleReplace ==
    /\ [][\A ok \in BOOLEAN : \A data \in DefaultsBodies :
             DefaultsJson(ok, data) /\ Rendered /\ UsableDefaults(data)
                 => parameters' = data.f.defaults /\ lastAlert' = Str(ResetDone)]_vars
    /\ [][parameters' # parameters /\ Rendered =>
             \/ /\ Rendered'
                /\ DOMAIN parameters' = DOMAIN parameters
                /\ \E key \in DOMAIN parameters :
                      \A k \in DOMAIN parameters \ {key} : parameters'[k] = parameters[k]
             \/ \E data \in DefaultsBodies :
                   data.t = "object" /\ parameters' = Prop(data, "defaults")]_vars

\* The second reset has replaced the parameters by a fetched object of one key.
C14_Witness ==
    /\ parameters = LoneDefaults
    /\ lastAlert = Str(ResetDone)
    /\ resetCount = 2
    /\ defaultsFetching = 0

\* C15: moving a slider stores a value inside the range of its key, for every
\* key and every position tried: temperature 5 is stored as 2.
C15_SetClamps ==
    /\ [](\A key \in ParamKeys : \A kv \in StoreSliderInputs :
             InRange(key, parseFloat(rangeValue(configs[key], kv[2]))))
    /\ [](parseFloat(rangeValue(configs.temperature, 500)) = 200)
    /\ [][\A kv \in StoreSliderInputs :
             SetParameter(kv[1], kv[2]) => InRange(kv[1], parameters'[kv[1]])]_vars

\* The temperature slider was dragged past its end and holds the maximum.
C15_Witness ==
    /\ Rendered
    /\ "temperature" \in DOMAIN parameters
    /\ parameters.temperature = 200
    /\ resetCount = 0

\* C19: every parameter lies within the range of its key, in every reachable state.
C19_Original ==
    Rendered => \A key \in DOMAIN parameters \cap DOMAIN configs : InRange(key, parameters[key])


\* C18: the parameters sent in the request body and attached to the record are
\* those of the moment the submission was accepted; a slider move or a reset
\* while the request is in flight or later changes neither them nor any record
\* already in the history.
C18_SnapshotAtAcceptance ==
    /\ [][fetchCount' # fetchCount =>
             \E inv \in inflight' :
                /\ inv.req = fetchCount'
                /\ inv.parameters = parameters
                /\ DOMAIN inv.body = DOMAIN parameters \cup {"messages"}
                /\ \A k \in DOMAIN parameters : inv.body[k] = parameters[k]
                /\ inv.body.messages = <<[role |-> "user", content |-> message]>>]_vars
    /\ [][\A inv \in inflight : \A later \in inflight' :
             later.req = inv.req =>
                 later.parameters = inv.parameters /\ later.body = inv.body]_vars
    /\ [][IF Len(responses') = Len(responses)
          THEN responses' = responses
          ELSE /\ Tail(responses') = responses
               /\ \A inv \in inflight \ inflight' :
                     ~isErrorOf(Head(responses')) =>
                         Head(responses').parameters = inv.parameters]_vars

\* The first record carries the initial parameters it was submitted with, the
\* second those of a store the user had moved, and the store has changed again.
C18_Witness ==
    /\ Len(responses) = 2
    /\ ~isErrorOf(responses[2])
    /\ responses[2].parameters = InitialParameters
    /\ ~isErrorOf(responses[1])
    /\ responses[1].parameters # InitialParameters
    /\ parameters \notin {responses[1].parameters, responses[2].parameters}
    /\ resetCount = 1

\* C20: a key of the defaults payload outside the six parameter keys is
\* ignored: it is not part of the parameters, it is sent in no request body,
\* and the component keeps rendering.
C20_Original ==
    /\ Rendered
    /\ DOMAIN parameters \subseteq ParamKeys
    /\ \A inv \in inflight : DOMAIN inv.body \subseteq ParamKeys \cup {"messages"}


\* C21: the history only grows: no step makes it shorter, and a step that
\* changes it inserts one record and leaves the records it had as they were, in
\* the order they had.
C21_HistoryOnlyGrows ==
    [][/\ Len(responses') >= Len(responses)
       /\ responses' # responses =>
             /\ Len(responses') = Len(responses) + 1
             /\ \E at \in 1 .. Len(responses') :
                   /\ SubSeq(responses', 1, at - 1) = SubSeq(responses, 1, at - 1)
                   /\ SubSeq(responses', at + 1, Len(responses')) =
                          SubSeq(responses, at, Len(responses))]_vars

\* Two records are in the history and the user has navigated to the older one.
C21_Witness ==
    /\ Len(responses) = 2
    /\ currentResponseIndex = 1
    /\ ~Pending


C24_HealthIndependent ==
    /\ [](submitDisabled <=> (isLoading \/ IsBlank(message)))
    /\ [][\/ fetchCount' # fetchCount
          \/ inflight' # inflight
          \/ responses' # responses
          \/ isLoading' # isLoading
          => apiStatus' = apiStatus /\ probe' = probe]_vars
    /\ [][apiStatus' # apiStatus \/ probe' # probe => chatVars' = chatVars]_vars

\* A submission is in flight on a component whose probe has failed.
C24_Witness ==
    /\ apiStatus = "error"
    /\ probe = "done"
    /\ Pending
    /\ \E inv \in inflight : inv.pc = "fetch"


\* C25: navigation changes the current index only: a step of previous, next or
\* a dot, and any step that moves the index over an unchanged history, leaves
\* the records, the parameters, the busy flag, the requests in flight and the
\* health status as they were.
C25_NavigationFrame ==
    [][\/ ClickPrevious
       \/ ClickNext
       \/ \E index \in 0 .. MaxHistory : ClickDot(index)
       \/ (currentResponseIndex' # currentResponseIndex /\ Len(responses') = Len(responses))
       => /\ responses' = responses
          /\ parameters' = parameters
          /\ isLoading' = isLoading
          /\ inflight' = inflight
          /\ message' = message
          /\ apiStatus' = apiStatus]_vars

\* The user looks at the older of two records while a third request is in flight.
C25_Witness ==
    /\ Len(responses) = 2
    /\ currentResponseIndex = 1
    /\ isLoading
    /\ \E inv \in inflight : inv.pc = "fetch"


\* The name ends in a dot followed by json, in either case.
HasJsonExtension(name) ==
    /\ Len(name) >= 5
    /\ SubSeq(name, Len(name) - 4, Len(name)) \in
           { <<".", "j", "s", "o", "n">>, <<".", "J", "S", "O", "N">> }

\* The invocation of handleFileUpload that ends in this step, if one does.
Finishing(u) == u \in uploads /\ u \notin uploads'

\* C26: a file with extension json is parsed as structured data and any other
\* file is shown as plain text; when reading or parsing fails an error message
\* is set and the response and the file type shown stay as they were; the
\* loading flag is cleared whenever an invocation ends.
C26_Original ==
    [][\A u \in uploads : Finishing(u) =>
          /\ loading' = FALSE
          /\ IF ~u.file.readable
             THEN error'.t = "string" /\ response' = response /\ fileType' = fileType
             ELSE IF HasJsonExtension(u.file.name)
             THEN \/ /\ JSONparse(u.file.text).ok
                     /\ response' = JSONparse(u.file.text).value
                     /\ fileType' = Str(JsonType)
                  \/ /\ ~JSONparse(u.file.text).ok
                     /\ error'.t = "string"
                     /\ response' = response /\ fileType' = fileType
             ELSE /\ response' = Str(u.file.text)
                  /\ fileType' = Str(TextType)]_vars


\* C27: on the Logout page, a render with an authenticated user invokes the
\* sign-out, and once it has been invoked the page is eventually sent to
\* /login, whether sdk.logout() resolves or throws; a render with session and
\* user loaded and nobody authenticated sends the page to /login without
\* calling sdk.logout().
C27_LogoutRedirects ==
    /\ [][mounted' /\ (~mounted \/ hooks' # hooks) =>
             IF isAuthenticated' /\ user' # Null
             THEN logoutCalls' = logoutCalls + 1
             ELSE /\ logoutCalls' = logoutCalls
                  /\ ~isSessionLoading' /\ ~isUserLoading' /\ ~isAuthenticated'
                         => route' = LoginPath]_vars
    /\ [][logoutCalls' # logoutCalls => isAuthenticated' /\ user' # Null]_vars
    /\ [](lastLogout # "none" => route = LoginPath)
    /\ (logoutCalls > 0) ~> (route = LoginPath)

\* sdk.logout() was called once and threw, and the page went to /login.
C27_Witness ==
    /\ logoutCalls = 1
    /\ lastLogout = "rejected"
    /\ loggingOut = 0
    /\ route = LoginPath

====
